---- MODULE Spec2Model ----
(***************************************************************************)
(* The venue router of src/server.js (routes/fields): venues, their        *)
(* images and the primary-image flag, abuse reports, and venue deletion.   *)
(* Every handler is a sequence of awaited queries against the database;    *)
(* one action models one awaited query together with the synchronous code  *)
(* that follows it up to the next await (or the response).  A handler runs *)
(* atomically when no other request is in flight (specifications Spec,     *)
(* SpecPrimary, SpecDelete, SpecVenues, SpecVisibility, SpecOwner,         *)
(* SpecHours, SpecOpen) and interleaves with another at its awaits         *)
(* otherwise (SpecImages, SpecReports, and SpecNotifier, which adds the    *)
(* progress of the queries).                                               *)
(***************************************************************************)
EXTENDS Integers, FiniteSets, Sequences, TLC

\* ------------------------------------------------------------------ bounds
\* requests that can be in flight at once
MaxReq == 2
\* rows the field_images serial hands out in one behaviour
MaxImages == 3
\* files multer writes in one behaviour
MaxUploads == 3
\* rows the venue_reports serial hands out in one behaviour
MaxReports == 2
\* the last id the sports_venues serial hands out in one behaviour
MaxVenues == 5

\* ------------------------------------------------------- program constants
NumUsers == 3
\* multer limits.fileSize, in bytes
fileSize == 5242880
\* express-validator isLength({ min, max }) of the report description
DescMin == 10
DescMax == 500

\* sports_venues: name VARCHAR(255), latitude DECIMAL(10, 8), longitude
\* DECIMAL(11, 8), city VARCHAR(100), province VARCHAR(10), region VARCHAR(100),
\* sport_type, surface_type and venue_type VARCHAR(50)
nameMax == 255
latitudePrecision == 10
longitudePrecision == 11
coordinateScale == 8
cityMax == 100
provinceMax == 10
regionMax == 100
sportTypeMax == 50
surfaceTypeMax == 50
venueTypeMax == 50

Reqs == 1..MaxReq
Users == 1..NumUsers
\* SQL NULL of an integer column (serial ids start at 1)
NULL == 0
\* the users row init-db inserts is the only one with is_admin = true
is_admin(u) == u = 1

\* ids a request may name: the two venues of Init and one that does not exist
VenueIds == 1..3
ImageIds == 1..(MaxImages + 1)

VARIABLES
  sports_venues,    \* rows [id, added_by_user_id, name, latitude, longitude, city, ...]
  football_fields,  \* the legacy table: NoTable, or rows [id, added_by_user_id]
  field_images,     \* rows [id, field_id, image_url, uploaded_by, uploaded_at, is_primary]
  venue_reports,    \* rows [id, venue_id, reported_by_user_id, report_type, description, status]
  files,            \* uploads/field-images on disk: the set of file names
  nextImageId,      \* field_images_id_seq
  nextReportId,     \* venue_reports_id_seq
  nextFile,         \* the unique suffix of the next upload's file name
  nextVenueId,      \* sports_venues_id_seq
  req               \* the requests in flight: their parameters, locals and response

vars == <<sports_venues, football_fields, field_images, venue_reports, files,
          nextImageId, nextReportId, nextFile, nextVenueId, req>>

db == <<sports_venues, football_fields, field_images, venue_reports, files>>

\* the legacy relation football_fields: it may not exist in the database at all
NoTable == [exists |-> FALSE, rows |-> {}]

NoImage == [id |-> NULL, field_id |-> NULL, image_url |-> NULL, uploaded_by |-> NULL,
            uploaded_at |-> NULL, is_primary |-> FALSE]

\* a request body without the optional description
Absent == -1

NoBody == [report_type |-> "", description |-> Absent]

NoFile == [ext |-> "", mimetype |-> "", size |-> 0]

\* ------------------------------------------------------------------- text
\* a text is the sequence of its characters; Missing is a field the request
\* does not carry (undefined), which a query parameter stores as NULL
Missing == <<"undefined">>

Milano == <<"M", "i", "l", "a", "n", "o">>
Roma == <<"R", "o", "m", "a">>
MI == <<"M", "I">>
RM == <<"R", "M">>
Lombardia == <<"L", "o", "m", "b", "a", "r", "d", "i", "a">>
Lazio == <<"L", "a", "z", "i", "o">>
football == <<"f", "o", "o", "t", "b", "a", "l", "l">>
swimming == <<"s", "w", "i", "m", "m", "i", "n", "g">>
erba == <<"e", "r", "b", "a">>
acqua == <<"a", "c", "q", "u", "a">>
undici == <<"1", "1", "v", "s", "1", "1">>
olimpionica == <<"o", "l", "i", "m", "p">>

Digits == {"0", "1", "2", "3", "4", "5", "6", "7", "8", "9"}

\* lower case of the letters the texts of this model are written in
Lower(c) ==
  CASE c = "M" -> "m" [] c = "R" -> "r" [] c = "L" -> "l" [] c = "I" -> "i"
    [] c = "O" -> "o" [] c = "N" -> "n" [] OTHER -> c

LowerText(t) == [i \in DOMAIN t |-> Lower(t[i])]

\* s LIKE p: % matches any run of characters, _ any one character (the
\* patterns of this model carry no escape character)
RECURSIVE Like(_, _)
Like(s, p) ==
  IF p = <<>> THEN s = <<>>
  ELSE IF Head(p) = "%" THEN Like(s, Tail(p)) \/ (s # <<>> /\ Like(Tail(s), p))
  ELSE /\ s # <<>>
       /\ Head(p) = "_" \/ Head(p) = Head(s)
       /\ Like(Tail(s), Tail(p))

\* column ILIKE $n: NULL ILIKE p is not true
ILike(s, p) == s # Missing /\ Like(LowerText(s), LowerText(p))

\* String.prototype.trim and validator's trim(): white space off both ends
\* the white space trim() strips, as far as the model's texts have it
Whitespace == {" ", "\t"}

RECURSIVE TrimLeft(_)
TrimLeft(t) == IF t # <<>> /\ Head(t) \in Whitespace THEN TrimLeft(Tail(t)) ELSE t

RECURSIVE TrimRight(_)
TrimRight(t) ==
  IF t # <<>> /\ t[Len(t)] \in Whitespace THEN TrimRight(SubSeq(t, 1, Len(t) - 1)) ELSE t

Trim(t) == TrimRight(TrimLeft(t))

\* validator's escape(): the HTML entities of & < > " ' / \ `
EscapeChar(c) ==
  CASE c = "&" -> <<"&", "a", "m", "p", ";">>
    [] c = "<" -> <<"&", "l", "t", ";">>
    [] c = ">" -> <<"&", "g", "t", ";">>
    [] c = "'" -> <<"&", "#", "x", "2", "7", ";">>
    [] c = "/" -> <<"&", "#", "x", "2", "F", ";">>
    [] OTHER -> <<c>>

RECURSIVE Escape(_)
Escape(t) == IF t = <<>> THEN <<>> ELSE EscapeChar(Head(t)) \o Escape(Tail(t))

\* express-validator hands a validator the field as a string: '' when undefined
Raw(t) == IF t = Missing THEN <<>> ELSE t

\* notEmpty(): the raw string has a character (white space counts)
notEmpty(t) == Raw(t) # <<>>

\* .trim().escape() of a field the body carries
Sanitized(t) == IF t = Missing THEN Missing ELSE Escape(Trim(t))

Unsigned(t) == IF t # <<>> /\ Head(t) \in {"-", "+"} THEN Tail(t) ELSE t

\* the digits a text starts with
RECURSIVE IntPart(_)
IntPart(t) == IF t # <<>> /\ Head(t) \in Digits THEN <<Head(t)>> \o IntPart(Tail(t)) ELSE <<>>

\* isFloat(): sign, digits, point, digits, and not one of '', '.', '-', '+'
\* (the numbers of this model carry no exponent)
isFloat(t) ==
  LET u == Unsigned(Raw(t))
      whole == IntPart(u)
      rest == SubSeq(u, Len(whole) + 1, Len(u))
  IN /\ Raw(t) \notin {<<>>, <<".">>, <<"-">>, <<"+">>}
     /\ rest = <<>> \/ (Head(rest) = "." /\ IntPart(Tail(rest)) = Tail(rest))

RECURSIVE StripZeros(_)
StripZeros(t) == IF t # <<>> /\ Head(t) = "0" THEN StripZeros(Tail(t)) ELSE t

\* a value fits DECIMAL(precision, scale) when the digits before its point are
\* at most precision - scale (the numbers of this model do not round up)
FitsDecimal(t, precision, scale) ==
  Len(StripZeros(IntPart(Unsigned(t)))) <= precision - scale

\* a value fits VARCHAR(n); NULL always does
FitsVarchar(t, n) == t = Missing \/ Len(t) <= n

\* the three rows init-db inserts into sports_venues (their ids come from the
\* serial, their created_at from the one statement that inserts them)
SanSiro ==
  [id |-> 1, added_by_user_id |-> NULL, name |-> <<"S">>,
   latitude |-> <<"4", "5">>, longitude |-> <<"9">>,
   city |-> Milano, province |-> MI, region |-> Lombardia,
   sport_type |-> football, surface_type |-> erba, venue_type |-> undici,
   opening_hours |-> Missing, prices |-> Missing, created_at |-> 0]

Centro ==
  [SanSiro EXCEPT !.id = 2, !.name = <<"C">>, !.latitude = <<"4", "1">>,
                  !.longitude = <<"1", "2">>, !.city = Roma, !.province = RM,
                  !.region = Lazio]

Piscina ==
  [SanSiro EXCEPT !.id = 3, !.name = <<"P">>, !.sport_type = swimming,
                  !.surface_type = acqua, !.venue_type = olimpionica]

\* the body of POST / and PUT /:id: the fields the handlers read
NoInput == [name |-> Missing, latitude |-> Missing, longitude |-> Missing, city |-> Missing,
            province |-> Missing, region |-> Missing, sport_type |-> Missing,
            surface_type |-> Missing, venue_type |-> Missing,
            opening_hours |-> Missing, prices |-> Missing]

\* req.query of GET /: a filter the request does not carry is Missing
NoQuery == [city |-> Missing, province |-> Missing, region |-> Missing,
            surface_type |-> Missing, venue_type |-> Missing, sport_type |-> Missing]

IdleReq == [op |-> "idle", pc |-> "idle", id |-> NULL, imageId |-> NULL, userId |-> NULL,
            body |-> NoBody, input |-> NoInput, query |-> NoQuery,
            isPrimary |-> FALSE, image |-> NoImage, nextPrimary |-> NULL,
            isAdmin |-> FALSE, tableName |-> "", emailError |-> FALSE,
            unlinkError |-> FALSE,
            status |-> 0, message |-> "", rows |-> <<>>,
            pre |-> [empty |-> FALSE, sound |-> FALSE, reported |-> FALSE, db |-> <<>>]]

\* ------------------------------------------------------------------- Init
\* A database with the schema of init-db: the admin user and two registered
\* users, one seeded venue (no owner) and one venue added by user 2, no images,
\* no reports.  init-db creates no table football_fields.
InitTables(legacy) ==
  /\ sports_venues = {[SanSiro EXCEPT !.id = 1],
                      [Centro EXCEPT !.id = 2, !.added_by_user_id = 2, !.created_at = 1]}
  /\ football_fields = legacy
  /\ field_images = {}
  /\ venue_reports = {}
  /\ files = {}
  /\ nextImageId = 1
  /\ nextReportId = 1
  /\ nextFile = 1
  /\ nextVenueId = 3
  /\ req = [r \in Reqs |-> IdleReq]

Init == InitTables(NoTable)

\* The same database in a deployment that kept the legacy table football_fields:
\* it is absent, empty, or holds a field of user 3 whose id is 1.
LegacyTables == {NoTable,
                 [exists |-> TRUE, rows |-> {}],
                 [exists |-> TRUE, rows |-> {[id |-> 1, added_by_user_id |-> 3]}]}

InitLegacy == \E legacy \in LegacyTables : InitTables(legacy)

\* ---------------------------------------------------------------- helpers
VenueExists(vid) == \E v \in sports_venues : v.id = vid

ImagesOf(images, vid) == {i \in images : i.field_id = vid}

\* SELECT id FROM venue_reports WHERE venue_id = $1 AND reported_by_user_id = $2
ReportsOf(reports, vid, uid) ==
  {p \in reports : p.venue_id = vid /\ p.reported_by_user_id = uid}

Primaries(images, vid) == {i \in ImagesOf(images, vid) : i.is_primary}

\* the primary-image invariant of one venue
PrimaryOK(images, vid) ==
  IF ImagesOf(images, vid) = {} THEN Primaries(images, vid) = {}
  ELSE Cardinality(Primaries(images, vid)) = 1

\* no other request is in flight
Sequential == \A r \in Reqs : req[r].pc = "idle"

\* the server takes a request while no other is in flight (in its first slot)
Serial(r) == Sequential /\ r = 1

\* the venue of the image a request names, or else the venue it names
Home(vid, iid) ==
  IF \E i \in field_images : i.id = iid
    THEN (CHOOSE i \in field_images : i.id = iid).field_id
    ELSE vid

\* what a request found when it arrived (history, not program state): the venue
\* it names had no image; the images of the venue it is about had one primary;
\* its caller had already reported the venue; and, for a request that arrived
\* with no other in flight, the tables and files themselves
Found(vid, iid, uid) ==
  [empty |-> ImagesOf(field_images, vid) = {},
   sound |-> PrimaryOK(field_images, Home(vid, iid)),
   reported |-> ReportsOf(venue_reports, vid, uid) # {},
   db |-> IF Sequential THEN db ELSE <<>>]

\* a request record as the router receives it: parameters and authenticated user
Started(o, p, vid, iid, uid) ==
  [IdleReq EXCEPT !.op = o, !.pc = p, !.id = vid, !.imageId = iid, !.userId = uid,
                  !.pre = Found(vid, iid, uid)]

\* res.status(s).json({ message: m }) ends the request
Answered(rq, s, m) ==
  [rq EXCEPT !.pc = "done", !.status = s, !.message = m,
             !.isPrimary = FALSE, !.nextPrimary = NULL, !.isAdmin = FALSE, !.tableName = ""]

Respond(r, s, m) == [req EXCEPT ![r] = Answered(req[r], s, m)]

\* the socket closes: the slot is free for the next request
Close(r) ==
  /\ req[r].pc = "done"
  /\ req' = [req EXCEPT ![r] = IdleReq]
  /\ UNCHANGED <<nextVenueId, db, nextImageId, nextReportId, nextFile>>

\* ------------------------------------------------ POST /:id/image (Attach)
\* multer's fileFilter: extension and MIME type are each tested on their own
allowedExtensions == {"jpg", "jpeg", "png", "gif"}
allowedMimeTypes == {"image/jpeg", "image/jpg", "image/png", "image/gif"}

fileFilter(file) == file.ext \in allowedExtensions /\ file.mimetype \in allowedMimeTypes

\* the uploads a request may carry: none, accepted ones, a wrong type, too large
Payloads == {NoFile,
             [ext |-> "jpg", mimetype |-> "image/jpeg", size |-> 1024],
             [ext |-> "png", mimetype |-> "image/jpeg", size |-> fileSize],
             [ext |-> "exe", mimetype |-> "image/png", size |-> 1024],
             [ext |-> "gif", mimetype |-> "image/gif", size |-> fileSize + 1]}

\* upload.single('image') and the handler up to its first query
BeginAttach(r, vid, uid, file) ==
  /\ req[r].pc = "idle"
  /\ IF file # NoFile /\ fileFilter(file) /\ file.size <= fileSize
       THEN /\ nextFile <= MaxUploads
            /\ req' = [req EXCEPT ![r] =
                         [Started("Attach", "attach_venue", vid, NULL, uid) EXCEPT
                            !.image = [NoImage EXCEPT !.image_url = nextFile]]]
            /\ files' = files \cup {nextFile}
            /\ nextFile' = nextFile + 1
       ELSE /\ req' = [req EXCEPT ![r] =
                         Answered(Started("Attach", "done", vid, NULL, uid), 400,
                                  IF file = NoFile THEN "No image file provided"
                                  ELSE IF ~fileFilter(file) THEN "Only image files are allowed!"
                                  ELSE "File upload error: File too large")]
            /\ UNCHANGED <<files, nextFile>>
  /\ UNCHANGED <<nextVenueId, sports_venues, football_fields, field_images, venue_reports,
                 nextImageId, nextReportId>>

\* SELECT id FROM sports_venues WHERE id = $1
AttachVenue(r) ==
  /\ req[r].pc = "attach_venue"
  /\ req' = IF VenueExists(req[r].id)
              THEN [req EXCEPT ![r].pc = "attach_count"]
              ELSE Respond(r, 404, "Venue not found")
  /\ UNCHANGED <<nextVenueId, db, nextImageId, nextReportId, nextFile>>

\* SELECT COUNT(*) FROM field_images WHERE field_id = $1; isPrimary = (count === '0')
AttachCount(r) ==
  /\ req[r].pc = "attach_count"
  /\ req' = [req EXCEPT ![r].pc = "attach_insert",
                        ![r].isPrimary = (Cardinality(ImagesOf(field_images, req[r].id)) = 0)]
  /\ UNCHANGED <<nextVenueId, db, nextImageId, nextReportId, nextFile>>

\* the row INSERT INTO field_images ... VALUES (id, imageUrl, userId, isPrimary) adds;
\* uploaded_at is CURRENT_TIMESTAMP, which grows with the serial
NewImage(rq, iid) ==
  [id |-> iid, field_id |-> rq.id, image_url |-> rq.image.image_url,
   uploaded_by |-> rq.userId, uploaded_at |-> iid, is_primary |-> rq.isPrimary]

\* the INSERT; field_id REFERENCES sports_venues(id), so a venue deleted since the
\* check makes the query throw, and the catch answers 500
AttachInsert(r) ==
  /\ req[r].pc = "attach_insert"
  /\ IF VenueExists(req[r].id)
       THEN /\ nextImageId <= MaxImages
            /\ field_images' = field_images \cup {NewImage(req[r], nextImageId)}
            /\ nextImageId' = nextImageId + 1
            /\ req' = Respond(r, 200, "Image uploaded successfully")
       ELSE /\ req' = Respond(r, 500, "Server error")
            /\ UNCHANGED <<field_images, nextImageId>>
  /\ UNCHANGED <<nextVenueId, sports_venues, football_fields, venue_reports, files, nextReportId, nextFile>>

\* --------------------------------- DELETE /:id/image/:imageId (Remove)
BeginRemove(r, vid, iid, uid) ==
  /\ req[r].pc = "idle"
  /\ req' = [req EXCEPT ![r] = Started("Remove", "remove_select", vid, iid, uid)]
  /\ UNCHANGED <<nextVenueId, db, nextImageId, nextReportId, nextFile>>

\* (mutant) an admin may delete any image
AdminMayRemove(image, uid) == image.uploaded_by = uid \/ is_admin(uid)

\* image.uploaded_by !== userId answers 403: only the uploader may delete
MayRemove(image, uid) == image.uploaded_by = uid

\* SELECT * FROM field_images WHERE id = $1, the uploader check, and the
\* synchronous existsSync/unlinkSync of the image's file
RemoveSelect(r) ==
  /\ req[r].pc = "remove_select"
  /\ LET rows == {i \in field_images : i.id = req[r].imageId}
     IN IF rows = {}
          THEN /\ req' = Respond(r, 404, "Image not found")
               /\ UNCHANGED files
          ELSE LET image == CHOOSE i \in rows : TRUE
               IN IF ~MayRemove(image, req[r].userId)
                    THEN /\ req' = Respond(r, 403, "You can only delete images you uploaded")
                         /\ UNCHANGED files
                    ELSE /\ req' = [req EXCEPT ![r].pc = "remove_delete", ![r].image = image]
                         /\ files' = files \ {image.image_url}
  /\ UNCHANGED <<nextVenueId, sports_venues, football_fields, field_images, venue_reports,
                 nextImageId, nextReportId, nextFile>>

\* DELETE FROM field_images WHERE id = $1
DeleteImageRow(images, iid) == {i \in images : i.id # iid}

RemoveDelete(r) ==
  /\ req[r].pc = "remove_delete"
  /\ field_images' = DeleteImageRow(field_images, req[r].imageId)
  /\ req' = IF req[r].image.is_primary
              THEN [req EXCEPT ![r].pc = "remove_next"]
              ELSE Respond(r, 200, "Image deleted successfully")
  /\ UNCHANGED <<nextVenueId, sports_venues, football_fields, venue_reports, files,
                 nextImageId, nextReportId, nextFile>>

\* SELECT id FROM field_images WHERE field_id = $1 ORDER BY uploaded_at ASC LIMIT 1
\* ($1 is the :id of the URL)
OldestImage(images, vid) ==
  {i \in ImagesOf(images, vid) : \A j \in ImagesOf(images, vid) : i.uploaded_at <= j.uploaded_at}

RemoveNext(r) ==
  /\ req[r].pc = "remove_next"
  /\ LET rows == OldestImage(field_images, req[r].id)
     IN req' = IF rows = {}
                 THEN Respond(r, 200, "Image deleted successfully")
                 ELSE [req EXCEPT ![r].pc = "remove_promote",
                                  ![r].nextPrimary = (CHOOSE i \in rows : TRUE).id]
  /\ UNCHANGED <<nextVenueId, db, nextImageId, nextReportId, nextFile>>

\* UPDATE field_images SET is_primary = $2 WHERE id = $1
SetPrimaryFlag(images, iid, flag) ==
  {IF i.id = iid THEN [i EXCEPT !.is_primary = flag] ELSE i : i \in images}

RemovePromote(r) ==
  /\ req[r].pc = "remove_promote"
  /\ field_images' = SetPrimaryFlag(field_images, req[r].nextPrimary, TRUE)
  /\ req' = Respond(r, 200, "Image deleted successfully")
  /\ UNCHANGED <<nextVenueId, sports_venues, football_fields, venue_reports, files,
                 nextImageId, nextReportId, nextFile>>

\* ------------------------- PUT /:id/image/:imageId/primary (SetPrimary)
BeginSetPrimary(r, vid, iid, uid) ==
  /\ req[r].pc = "idle"
  /\ req' = [req EXCEPT ![r] = Started("SetPrimary", "primary_select", vid, iid, uid)]
  /\ UNCHANGED <<nextVenueId, db, nextImageId, nextReportId, nextFile>>

\* SELECT * FROM field_images WHERE id = $1 AND field_id = $2
\* (mutant) the image is looked up by its id alone
ImageOfAnyVenue(images, iid, vid) == {i \in images : i.id = iid}

ImageOfVenue(images, iid, vid) == {i \in images : i.id = iid /\ i.field_id = vid}

SetPrimarySelect(r) ==
  /\ req[r].pc = "primary_select"
  /\ req' = IF ImageOfVenue(field_images, req[r].imageId, req[r].id) = {}
              THEN Respond(r, 404, "Image not found")
              ELSE [req EXCEPT ![r].pc = "primary_clear"]
  /\ UNCHANGED <<nextVenueId, db, nextImageId, nextReportId, nextFile>>

\* (mutant) SET is_primary = NOT is_primary
ClearPrimaryToggles(images, vid) ==
  {IF i.field_id = vid THEN [i EXCEPT !.is_primary = ~@] ELSE i : i \in images}

\* UPDATE field_images SET is_primary = false WHERE field_id = $1
ClearPrimary(images, vid) ==
  {IF i.field_id = vid THEN [i EXCEPT !.is_primary = FALSE] ELSE i : i \in images}

\* the images the whole handler leaves when it runs with no other request in
\* flight: untouched on the 404, else cleared for the venue and set on the target
SetPrimaryResult(images, vid, iid) ==
  IF ImageOfVenue(images, iid, vid) = {} THEN images
  ELSE SetPrimaryFlag(ClearPrimary(images, vid), iid, TRUE)

SetPrimaryClear(r) ==
  /\ req[r].pc = "primary_clear"
  /\ field_images' = ClearPrimary(field_images, req[r].id)
  /\ req' = [req EXCEPT ![r].pc = "primary_set"]
  /\ UNCHANGED <<nextVenueId, sports_venues, football_fields, venue_reports, files,
                 nextImageId, nextReportId, nextFile>>

SetPrimarySet(r) ==
  /\ req[r].pc = "primary_set"
  /\ field_images' = SetPrimaryFlag(field_images, req[r].imageId, TRUE)
  /\ req' = Respond(r, 200, "Primary image updated successfully")
  /\ UNCHANGED <<nextVenueId, sports_venues, football_fields, venue_reports, files,
                 nextImageId, nextReportId, nextFile>>

\* ------------------------------------------------- DELETE /:id (Delete)
BeginDelete(r, vid, uid) ==
  /\ req[r].pc = "idle"
  /\ req' = [req EXCEPT ![r] = Started("Delete", "delete_user", vid, NULL, uid)]
  /\ UNCHANGED <<nextVenueId, db, nextImageId, nextReportId, nextFile>>

\* SELECT is_admin FROM users WHERE id = $1
DeleteUser(r) ==
  /\ req[r].pc = "delete_user"
  /\ req' = [req EXCEPT ![r].pc = "delete_exists", ![r].isAdmin = is_admin(req[r].userId)]
  /\ UNCHANGED <<nextVenueId, db, nextImageId, nextReportId, nextFile>>

\* what Delete answers for an id that is in no row of sports_venues
VenueNotFound == <<404, "Venue not found">>

\* what the non-admin branch of Delete answers when its venueCheck finds no row
AccessDenied == <<404, "Venue not found or access denied">>

\* SELECT * FROM sports_venues WHERE id = $1
DeleteExists(r) ==
  /\ req[r].pc = "delete_exists"
  /\ req' = IF ~VenueExists(req[r].id)
              THEN Respond(r, VenueNotFound[1], VenueNotFound[2])
            ELSE IF req[r].isAdmin THEN [req EXCEPT ![r].pc = "delete_files"]
            ELSE [req EXCEPT ![r].pc = "delete_owned"]
  /\ UNCHANGED <<nextVenueId, db, nextImageId, nextReportId, nextFile>>

\* admin: SELECT image_url FROM field_images WHERE field_id = $1, and the
\* synchronous existsSync/unlinkSync of every file
DeleteFiles(r) ==
  /\ req[r].pc = "delete_files"
  /\ files' = files \ {i.image_url : i \in ImagesOf(field_images, req[r].id)}
  /\ req' = [req EXCEPT ![r].pc = "delete_images"]
  /\ UNCHANGED <<nextVenueId, sports_venues, football_fields, field_images, venue_reports,
                 nextImageId, nextReportId, nextFile>>

\* admin: fs.unlinkSync throws on one of the venue's files (EACCES, EBUSY, ...):
\* the files the loop had reached before it (the rows come in no stated order)
\* are gone, the rest of the handler is skipped and the catch answers 500
DeleteFilesThrows(r) ==
  /\ req[r].pc = "delete_files"
  /\ LET stored == {i.image_url : i \in ImagesOf(field_images, req[r].id)} \cap files
     IN \E failing \in stored :
          \E unlinked \in SUBSET (stored \ {failing}) :
            files' = files \ unlinked
  /\ req' = [Respond(r, 500, "Server error") EXCEPT ![r].unlinkError = TRUE]
  /\ UNCHANGED <<nextVenueId, sports_venues, football_fields, field_images, venue_reports,
                 nextImageId, nextReportId, nextFile>>

\* admin: DELETE FROM field_images WHERE field_id = $1
DeleteImages(r) ==
  /\ req[r].pc = "delete_images"
  /\ field_images' = field_images \ ImagesOf(field_images, req[r].id)
  /\ req' = [req EXCEPT ![r].pc = "delete_reports"]
  /\ UNCHANGED <<nextVenueId, sports_venues, football_fields, venue_reports, files,
                 nextImageId, nextReportId, nextFile>>

\* admin: DELETE FROM venue_reports WHERE venue_id = $1
DeleteReports(r) ==
  /\ req[r].pc = "delete_reports"
  /\ venue_reports' = {p \in venue_reports : p.venue_id # req[r].id}
  /\ req' = [req EXCEPT ![r].pc = "delete_check"]
  /\ UNCHANGED <<nextVenueId, sports_venues, football_fields, field_images, files,
                 nextImageId, nextReportId, nextFile>>

\* SELECT 'sports_venues' ... WHERE id = $1 UNION ALL SELECT 'football_fields' ...
\* WHERE id = $1: the table of rows[0], the sports_venues branch coming first
\* ("" when no row matches).  owner = NULL selects on the id alone (the admin's
\* query); otherwise the rows must also have added_by_user_id = owner.
venueCheck(vid, owner) ==
  IF \E v \in sports_venues : v.id = vid /\ (owner = NULL \/ v.added_by_user_id = owner)
    THEN "sports_venues"
  ELSE IF \E f \in football_fields.rows :
            f.id = vid /\ (owner = NULL \/ f.added_by_user_id = owner)
    THEN "football_fields"
  ELSE ""

\* the venueCheck query of either branch; it names football_fields, so it throws
\* (and the catch answers 500) when that table does not exist
DeleteCheck(r) ==
  /\ req[r].pc \in {"delete_check", "delete_owned"}
  /\ LET tableName == venueCheck(req[r].id,
                                 IF req[r].pc = "delete_check" THEN NULL ELSE req[r].userId)
     IN req' = IF ~football_fields.exists THEN Respond(r, 500, "Server error")
               ELSE IF tableName = ""
                 THEN Respond(r, 404, IF req[r].pc = "delete_check" THEN VenueNotFound[2]
                                      ELSE AccessDenied[2])
               ELSE [req EXCEPT ![r].pc = "delete_row", ![r].tableName = tableName]
  /\ UNCHANGED <<nextVenueId, db, nextImageId, nextReportId, nextFile>>

\* the rows DELETE FROM t WHERE id = $1 [AND added_by_user_id = $2] removes
Doomed(rows, vid, owner) ==
  {v \in rows : v.id = vid /\ (owner = NULL \/ v.added_by_user_id = owner)}

\* (mutant) field_id REFERENCES sports_venues(id) without ON DELETE CASCADE
NoCascade(images, gone) == images

\* field_id INTEGER REFERENCES sports_venues(id) ON DELETE CASCADE
CascadeImages(images, gone) == {i \in images : \A v \in gone : i.field_id # v.id}

\* DELETE FROM ${tableName} ... RETURNING *; field_images and venue_reports
\* reference sports_venues ON DELETE CASCADE
DeleteRow(r) ==
  /\ req[r].pc = "delete_row"
  /\ LET owner == IF req[r].isAdmin THEN NULL ELSE req[r].userId
         table == IF req[r].tableName = "sports_venues" THEN sports_venues
                  ELSE football_fields.rows
         gone == Doomed(table, req[r].id, owner)
     IN /\ IF req[r].tableName = "sports_venues"
             THEN /\ sports_venues' = sports_venues \ gone
                  /\ field_images' = CascadeImages(field_images, gone)
                  /\ venue_reports' = {p \in venue_reports : \A v \in gone : p.venue_id # v.id}
                  /\ UNCHANGED football_fields
             ELSE /\ football_fields' = [football_fields EXCEPT !.rows = @ \ gone]
                  /\ UNCHANGED <<sports_venues, field_images, venue_reports>>
        /\ req' = IF gone = {} THEN Respond(r, AccessDenied[1], AccessDenied[2])
                  ELSE Respond(r, 200, IF req[r].isAdmin
                                         THEN "Impianto eliminato con successo (Admin)"
                                         ELSE "Field deleted successfully")
  /\ UNCHANGED <<nextVenueId, files, nextImageId, nextReportId, nextFile>>

\* ---------------------------------------------- POST /:id/report (File)
report_types == {"non_esiste", "info_errate", "altro"}

\* (mutant) the description is not validated
validTypeOnly(body) == body.report_type \in report_types

\* body('report_type').isIn([...]); body('description').optional().isLength({min, max})
\* (a description is modelled by its length)
validationResult(body) ==
  /\ body.report_type \in report_types
  /\ body.description # Absent => (body.description >= DescMin /\ body.description <= DescMax)

\* the 400 of validationResult: { errors: errors.array() }
Invalid == <<400, "errors">>

BeginFile(r, vid, uid, body) ==
  /\ req[r].pc = "idle"
  /\ req' = [req EXCEPT ![r] =
               IF validationResult(body)
                 THEN [Started("File", "file_venue", vid, NULL, uid) EXCEPT !.body = body]
                 ELSE Answered([Started("File", "done", vid, NULL, uid) EXCEPT !.body = body],
                               Invalid[1], Invalid[2])]
  /\ UNCHANGED <<nextVenueId, db, nextImageId, nextReportId, nextFile>>

\* SELECT f.*, u.username FROM sports_venues f LEFT JOIN users u ... WHERE f.id = $1
FileVenue(r) ==
  /\ req[r].pc = "file_venue"
  /\ req' = IF VenueExists(req[r].id) THEN [req EXCEPT ![r].pc = "file_existing"]
            ELSE Respond(r, 404, "Venue not found")
  /\ UNCHANGED <<nextVenueId, db, nextImageId, nextReportId, nextFile>>

\* the 400 of a caller who has already reported the venue
AlreadyReported == <<400, "Hai gia segnalato questo impianto">>

\* (mutant) the existing report is looked up by its report_type as well
FileExistingByType(r) ==
  /\ req[r].pc = "file_existing"
  /\ req' = IF \E p \in ReportsOf(venue_reports, req[r].id, req[r].userId) :
                   p.report_type = req[r].body.report_type
              THEN Respond(r, AlreadyReported[1], AlreadyReported[2])
              ELSE [req EXCEPT ![r].pc = "file_insert"]
  /\ UNCHANGED <<nextVenueId, db, nextImageId, nextReportId, nextFile>>

\* SELECT id FROM venue_reports WHERE venue_id = $1 AND reported_by_user_id = $2
FileExisting(r) ==
  /\ req[r].pc = "file_existing"
  /\ req' = IF ReportsOf(venue_reports, req[r].id, req[r].userId) # {}
              THEN Respond(r, AlreadyReported[1], AlreadyReported[2])
              ELSE [req EXCEPT ![r].pc = "file_insert"]
  /\ UNCHANGED <<nextVenueId, db, nextImageId, nextReportId, nextFile>>

\* the row INSERT INTO venue_reports (venue_id, reported_by_user_id, report_type,
\* description) adds; status defaults to 'pending'
NewReport(rq, pid) ==
  [id |-> pid, venue_id |-> rq.id, reported_by_user_id |-> rq.userId,
   report_type |-> rq.body.report_type, description |-> rq.body.description,
   status |-> "pending"]

\* SELECT username FROM users (the users do not change) and the INSERT;
\* venue_id REFERENCES sports_venues(id), so a venue deleted since the check
\* makes the query throw, and the catch answers 500
FileInsert(r) ==
  /\ req[r].pc = "file_insert"
  /\ IF VenueExists(req[r].id)
       THEN /\ nextReportId <= MaxReports
            /\ venue_reports' = venue_reports \cup {NewReport(req[r], nextReportId)}
            /\ nextReportId' = nextReportId + 1
            /\ req' = [req EXCEPT ![r].pc = "file_email"]
       ELSE /\ req' = Respond(r, 500, "Server error")
            /\ UNCHANGED <<venue_reports, nextReportId>>
  /\ UNCHANGED <<nextVenueId, sports_venues, football_fields, field_images, files, nextImageId, nextFile>>

\* the ways the promise of sendFieldReportEmail(emailData) settles
sendFieldReportEmail == {"resolved", "rejected"}

\* (mutant) the rejection reaches the outer catch
EmailPropagates(outcome) ==
  IF outcome = "rejected" THEN <<500, "Server error">>
  ELSE <<201, "Segnalazione inviata con successo">>

\* try { await sendFieldReportEmail(emailData) } catch (emailError) { log }:
\* the rejection is caught and logged, and either way the handler answers 201
EmailAnswer(outcome) == <<201, "Segnalazione inviata con successo">>

\* the handler resumes when the promise settles, and answers
FileEmail(r) ==
  /\ req[r].pc = "file_email"
  /\ \E outcome \in sendFieldReportEmail :
       req' = [Respond(r, EmailAnswer(outcome)[1], EmailAnswer(outcome)[2]) EXCEPT
                 ![r].emailError = (outcome = "rejected")]
  /\ UNCHANGED <<nextVenueId, db, nextImageId, nextReportId, nextFile>>

\* ------------------------------------------------------- GET / (List)
\* if (city): undefined and '' are falsy
Supplied(q) == q # Missing /\ q # <<>>

\* the WHERE clause the handler builds from req.query
Selected(v, q) ==
  /\ Supplied(q.city) => ILike(v.city, <<"%">> \o q.city \o <<"%">>)
  /\ Supplied(q.province) => ILike(v.province, <<"%">> \o q.province \o <<"%">>)
  /\ Supplied(q.region) => ILike(v.region, <<"%">> \o q.region \o <<"%">>)
  /\ Supplied(q.surface_type) => v.surface_type = q.surface_type
  /\ Supplied(q.venue_type) => v.venue_type = q.venue_type
  /\ Supplied(q.sport_type) => v.sport_type = q.sport_type

\* ORDER BY f.created_at DESC: the orders of the rows' ids in which no row comes
\* before a newer one (rows of one created_at come in any order)
Orderings(rows) ==
  LET ids == {v.id : v \in rows}
      at(vid) == (CHOOSE v \in rows : v.id = vid).created_at
  IN {o \in [1..Cardinality(ids) -> ids] :
        /\ \A i, j \in DOMAIN o : i # j => o[i] # o[j]
        /\ \A i, j \in DOMAIN o : i < j => at(o[i]) >= at(o[j])}

BeginList(r, query) ==
  /\ req[r].pc = "idle"
  /\ req' = [req EXCEPT ![r] =
               [Started("List", "list_select", NULL, NULL, NULL) EXCEPT !.query = query]]
  /\ UNCHANGED <<nextVenueId, db, nextImageId, nextReportId, nextFile>>

\* pool.query(query, params); res.json(result.rows)
ListSelect(r) ==
  /\ req[r].pc = "list_select"
  /\ \E o \in Orderings({v \in sports_venues : Selected(v, req[r].query)}) :
       req' = [req EXCEPT ![r] = [Answered(req[r], 200, "") EXCEPT !.rows = o]]
  /\ UNCHANGED <<nextVenueId, db, nextImageId, nextReportId, nextFile>>

\* ---------------------------------------------------- POST / (Create)
\* the validators of POST /
\* a JSON value of the body that is no string and is truthy (a number, an array)
NotAString == <<"object">>

\* (mutant) the body's value is stored as it comes
Unnormalized(t) == t

\* (t && t.trim() !== '') ? t : null, for a string or an absent field
Normalized(t) == IF t # Missing /\ Trim(t) # <<>> THEN t ELSE Missing

\* opening_hours.trim is not a function: the parameter list throws a TypeError
\* before the query is sent, and the catch answers 500
NormalizeThrows(input) == input.opening_hours = NotAString \/ input.prices = NotAString

validCreate(input) ==
  /\ notEmpty(input.name)
  /\ isFloat(input.latitude) /\ isFloat(input.longitude)
  /\ notEmpty(input.city) /\ notEmpty(input.province) /\ notEmpty(input.region)
  /\ notEmpty(input.sport_type)

BeginCreate(r, uid, input) ==
  /\ req[r].pc = "idle"
  /\ req' = [req EXCEPT ![r] =
               IF validCreate(input)
                 THEN [Started("Create", "create_insert", NULL, NULL, uid) EXCEPT
                         !.input = input]
                 ELSE Answered([Started("Create", "done", NULL, NULL, uid) EXCEPT
                                  !.input = input], Invalid[1], Invalid[2])]
  /\ UNCHANGED <<nextVenueId, db, nextImageId, nextReportId, nextFile>>

\* the row INSERT INTO sports_venues ... VALUES adds: the sanitized fields, the
\* caller as added_by_user_id; created_at grows with the serial
NewVenue(rq, vid) ==
  [id |-> vid, added_by_user_id |-> rq.userId,
   name |-> Sanitized(rq.input.name),
   latitude |-> rq.input.latitude, longitude |-> rq.input.longitude,
   city |-> Sanitized(rq.input.city), province |-> Sanitized(rq.input.province),
   region |-> Sanitized(rq.input.region), sport_type |-> Sanitized(rq.input.sport_type),
   surface_type |-> rq.input.surface_type, venue_type |-> rq.input.venue_type,
   opening_hours |-> Normalized(rq.input.opening_hours),
   prices |-> Normalized(rq.input.prices),
   created_at |-> vid]

\* the columns of sports_venues take the row: NOT NULL, VARCHAR(n), DECIMAL(p, s)
Accepts(row) ==
  /\ row.name # Missing /\ row.sport_type # Missing
  /\ FitsVarchar(row.name, nameMax)
  /\ FitsDecimal(row.latitude, latitudePrecision, coordinateScale)
  /\ FitsDecimal(row.longitude, longitudePrecision, coordinateScale)
  /\ FitsVarchar(row.city, cityMax) /\ FitsVarchar(row.province, provinceMax)
  /\ FitsVarchar(row.region, regionMax) /\ FitsVarchar(row.sport_type, sportTypeMax)
  /\ FitsVarchar(row.surface_type, surfaceTypeMax)
  /\ FitsVarchar(row.venue_type, venueTypeMax)

\* the INSERT; a row the columns do not take makes the query throw, and the
\* catch answers 500
CreateInsert(r) ==
  /\ req[r].pc = "create_insert"
  /\ nextVenueId <= MaxVenues
  /\ LET row == NewVenue(req[r], nextVenueId)
     IN IF ~NormalizeThrows(req[r].input) /\ Accepts(row)
          THEN /\ sports_venues' = sports_venues \cup {row}
               /\ nextVenueId' = nextVenueId + 1
               /\ req' = [req EXCEPT ![r] =
                            [Answered(req[r], 201, "Venue added successfully") EXCEPT
                               !.id = row.id]]
          ELSE /\ req' = Respond(r, 500, "Server error")
               /\ UNCHANGED <<sports_venues, nextVenueId>>
  /\ UNCHANGED <<football_fields, field_images, venue_reports, files,
                 nextImageId, nextReportId, nextFile>>

\* --------------------------------------------------- PUT /:id (Update)
\* the validators of PUT /:id
validUpdate(input) ==
  notEmpty(input.name) /\ isFloat(input.latitude) /\ isFloat(input.longitude)

BeginUpdate(r, vid, uid, input) ==
  /\ req[r].pc = "idle"
  /\ req' = [req EXCEPT ![r] =
               IF validUpdate(input)
                 THEN [Started("Update", "update_select", vid, NULL, uid) EXCEPT
                         !.input = input]
                 ELSE Answered([Started("Update", "done", vid, NULL, uid) EXCEPT
                                  !.input = input], Invalid[1], Invalid[2])]
  /\ UNCHANGED <<nextVenueId, db, nextImageId, nextReportId, nextFile>>

\* SELECT ... FROM sports_venues WHERE id = $1
UpdateSelect(r) ==
  /\ req[r].pc = "update_select"
  /\ req' = IF VenueExists(req[r].id) THEN [req EXCEPT ![r].pc = "update_write"]
            ELSE Respond(r, 404, "Venue not found")
  /\ UNCHANGED <<nextVenueId, db, nextImageId, nextReportId, nextFile>>

\* (mutant) the UPDATE also sets added_by_user_id = the caller
UpdatedByCaller(v, input, uid) ==
  [v EXCEPT !.name = Sanitized(input.name), !.latitude = input.latitude,
            !.longitude = input.longitude, !.city = input.city,
            !.province = input.province, !.region = input.region,
            !.sport_type = input.sport_type, !.surface_type = input.surface_type,
            !.venue_type = input.venue_type,
            !.opening_hours = Normalized(input.opening_hours),
            !.prices = Normalized(input.prices), !.added_by_user_id = uid]

\* the row UPDATE sports_venues SET name = $1, ... WHERE id = $18 leaves: the
\* sanitized name, the other fields as the body carries them (NULL when it
\* does not)
UpdatedVenue(v, input, uid) ==
  [v EXCEPT !.name = Sanitized(input.name), !.latitude = input.latitude,
            !.longitude = input.longitude, !.city = input.city,
            !.province = input.province, !.region = input.region,
            !.sport_type = input.sport_type, !.surface_type = input.surface_type,
            !.venue_type = input.venue_type,
            !.opening_hours = Normalized(input.opening_hours),
            !.prices = Normalized(input.prices)]

\* the UPDATE; it changes no row when the venue has been deleted since the
\* check, and throws (the catch answers 500) when the columns do not take the row
UpdateWrite(r) ==
  /\ req[r].pc = "update_write"
  /\ LET old == {v \in sports_venues : v.id = req[r].id}
         new == {UpdatedVenue(v, req[r].input, req[r].userId) : v \in old}
     IN IF ~NormalizeThrows(req[r].input) /\ \A row \in new : Accepts(row)
          THEN /\ sports_venues' = (sports_venues \ old) \cup new
               /\ req' = Respond(r, 200, "Impianto aggiornato con successo")
          ELSE /\ req' = Respond(r, 500, "Server error")
               /\ UNCHANGED sports_venues
  /\ UNCHANGED <<nextVenueId, football_fields, field_images, venue_reports, files,
                 nextImageId, nextReportId, nextFile>>

\* ------------------------------- GET /:id/reports (ListForVenue)
\* ORDER BY created_at DESC over rows whose created_at grows with their serial id
RECURSIVE NewestFirst(_)
NewestFirst(ids) ==
  IF ids = {} THEN <<>>
  ELSE LET newest == CHOOSE x \in ids : \A y \in ids : y <= x
       IN <<newest>> \o NewestFirst(ids \ {newest})

BeginListReports(r, vid, uid) ==
  /\ req[r].pc = "idle"
  /\ req' = [req EXCEPT ![r] = Started("ListForVenue", "reports_user", vid, NULL, uid)]
  /\ UNCHANGED <<nextVenueId, db, nextImageId, nextReportId, nextFile>>

\* SELECT is_admin FROM users WHERE id = $1
ListReportsUser(r) ==
  /\ req[r].pc = "reports_user"
  /\ req' = [req EXCEPT ![r].pc = "reports_venue", ![r].isAdmin = is_admin(req[r].userId)]
  /\ UNCHANGED <<nextVenueId, db, nextImageId, nextReportId, nextFile>>

\* (mutant) the check on the caller is left out
AnyoneSees(owner, uid, isAdmin) == TRUE

\* the negation of: added_by_user_id !== userId && !isAdmin
MaySeeReports(owner, uid, isAdmin) == owner = uid \/ isAdmin

\* what a caller who is neither the venue's owner nor an admin is answered
Forbidden == <<403, "Access denied">>

\* SELECT added_by_user_id FROM sports_venues WHERE id = $1, and the two checks
ListReportsVenue(r) ==
  /\ req[r].pc = "reports_venue"
  /\ req' = IF ~VenueExists(req[r].id) THEN Respond(r, 404, "Venue not found")
            ELSE LET venue == CHOOSE v \in sports_venues : v.id = req[r].id
                 IN IF MaySeeReports(venue.added_by_user_id, req[r].userId, req[r].isAdmin)
                      THEN [req EXCEPT ![r].pc = "reports_select"]
                      ELSE Respond(r, Forbidden[1], Forbidden[2])
  /\ UNCHANGED <<nextVenueId, db, nextImageId, nextReportId, nextFile>>

\* SELECT fr.* ... WHERE fr.venue_id = $1 ORDER BY fr.created_at DESC; res.json(rows)
ListReportsSelect(r) ==
  /\ req[r].pc = "reports_select"
  /\ req' = [req EXCEPT ![r] =
               [Answered(req[r], 200, "") EXCEPT
                  !.rows = NewestFirst({p.id : p \in {q \in venue_reports :
                                                         q.venue_id = req[r].id}})]]
  /\ UNCHANGED <<nextVenueId, db, nextImageId, nextReportId, nextFile>>

\* ------------------------------------- GET /reports/all (ListAll)
\* the middleware ../middleware/admin lets the request through when the caller
\* is an admin
adminAuth(uid) == is_admin(uid)

BeginListAll(r, uid) ==
  /\ req[r].pc = "idle"
  /\ req' = [req EXCEPT ![r] =
               IF adminAuth(uid) THEN Started("ListAll", "all_select", NULL, NULL, uid)
               ELSE Answered(Started("ListAll", "done", NULL, NULL, uid),
                             Forbidden[1], Forbidden[2])]
  /\ UNCHANGED <<nextVenueId, db, nextImageId, nextReportId, nextFile>>

\* SELECT fr.* ... FROM venue_reports fr ... ORDER BY fr.created_at DESC
ListAllSelect(r) ==
  /\ req[r].pc = "all_select"
  /\ req' = [req EXCEPT ![r] =
               [Answered(req[r], 200, "") EXCEPT
                  !.rows = NewestFirst({p.id : p \in venue_reports})]]
  /\ UNCHANGED <<nextVenueId, db, nextImageId, nextReportId, nextFile>>

\* ------------------------------------------- POST /delete-all-fields
\* the route has no auth middleware: the request carries no user
BeginDeleteAll(r) ==
  /\ req[r].pc = "idle"
  /\ req' = [req EXCEPT ![r] = Started("DeleteAll", "delete_all", NULL, NULL, NULL)]
  /\ UNCHANGED <<nextVenueId, db, nextImageId, nextReportId, nextFile>>

\* DELETE FROM sports_venues; field_images and venue_reports reference
\* sports_venues ON DELETE CASCADE; no file is unlinked
DeleteAllRows(r) ==
  /\ req[r].pc = "delete_all"
  /\ sports_venues' = {}
  /\ field_images' = CascadeImages(field_images, sports_venues)
  /\ venue_reports' = {p \in venue_reports : \A v \in sports_venues : p.venue_id # v.id}
  /\ req' = Respond(r, 200, "All fields deleted successfully")
  /\ UNCHANGED <<nextVenueId, football_fields, files, nextImageId, nextReportId, nextFile>>

\* ----------------------------------------------------------- specifications
ImageStep(r) ==
  \/ AttachVenue(r) \/ AttachCount(r) \/ AttachInsert(r)
  \/ RemoveSelect(r) \/ RemoveDelete(r) \/ RemoveNext(r) \/ RemovePromote(r)
  \/ SetPrimarySelect(r) \/ SetPrimaryClear(r) \/ SetPrimarySet(r)

DeleteStep(r) ==
  \/ DeleteUser(r) \/ DeleteExists(r) \/ DeleteFiles(r) \/ DeleteFilesThrows(r)
  \/ DeleteImages(r)
  \/ DeleteReports(r) \/ DeleteCheck(r) \/ DeleteRow(r)

FileStep(r) == FileVenue(r) \/ FileExisting(r) \/ FileInsert(r) \/ FileEmail(r)

\* the uploads multer accepts among Payloads
Accepted == {f \in Payloads : f # NoFile /\ fileFilter(f) /\ f.size <= fileSize}

\* the report bodies a request may carry: two the validators accept, one with a
\* type outside the list, one with a description that is too short, one with a
\* description that is too long
Bodies == {[report_type |-> "non_esiste", description |-> Absent],
           [report_type |-> "altro", description |-> DescMin],
           [report_type |-> "spam", description |-> DescMin],
           [report_type |-> "altro", description |-> DescMin - 1],
           [report_type |-> "info_errate", description |-> DescMax + 1]}

\* the callers of the image and report handlers, which never read is_admin
Members == {u \in Users : ~is_admin(u)}

\* the races are between requests of one user on one venue
RaceVenueIds == {1}
RaceUsers == {2}
RacePayloads == {[ext |-> "jpg", mimetype |-> "image/jpeg", size |-> 1024]}
RaceBodies == {[report_type |-> "non_esiste", description |-> Absent]}

RaceBegin(r) ==
  \/ \E vid \in RaceVenueIds, uid \in RaceUsers, file \in RacePayloads :
       BeginAttach(r, vid, uid, file)
  \/ \E vid \in RaceVenueIds, iid \in ImageIds, uid \in RaceUsers :
       BeginRemove(r, vid, iid, uid)
  \/ \E vid \in RaceVenueIds, iid \in ImageIds, uid \in RaceUsers :
       BeginSetPrimary(r, vid, iid, uid)

\* the image handlers, interleaved at their awaits
NextImages == \E r \in Reqs : RaceBegin(r) \/ ImageStep(r) \/ Close(r)

SpecImages == Init /\ [][NextImages]_vars

\* the report handler, interleaved with itself at its awaits
NextReports ==
  \E r \in Reqs :
    \/ \E vid \in VenueIds \ {2}, uid \in RaceUsers, body \in Bodies :
         BeginFile(r, vid, uid, body)
    \/ FileStep(r)
    \/ Close(r)

SpecReports == Init /\ [][NextReports]_vars

\* the report handler with the progress the runtime gives it: a query the
\* pool has accepted completes, so the handler goes on from each of its database
\* awaits. Nothing makes the promise of sendFieldReportEmail settle, so
\* FileEmail, the step that resumes the handler when it does, is not fair
SpecNotifier ==
  /\ Init
  /\ [][NextReports]_vars
  /\ \A r \in Reqs : WF_vars(FileVenue(r) \/ FileExisting(r) \/ FileInsert(r))

\* the image handlers, called by any member
ImageBegin(r) ==
  \/ \E vid \in VenueIds, uid \in Members, file \in Payloads : BeginAttach(r, vid, uid, file)
  \/ \E vid \in VenueIds, iid \in ImageIds, uid \in Members : BeginRemove(r, vid, iid, uid)
  \/ \E vid \in VenueIds, iid \in ImageIds, uid \in Members : BeginSetPrimary(r, vid, iid, uid)

\* the image handlers, one request at a time, on images that one user uploads,
\* any user may try to remove and any member may try to make primary
PrimaryBegin(r) ==
  \/ \E vid \in VenueIds, uid \in RaceUsers, file \in Payloads : BeginAttach(r, vid, uid, file)
  \/ \E vid \in VenueIds, iid \in ImageIds, uid \in Users : BeginRemove(r, vid, iid, uid)
  \/ \E vid \in VenueIds, iid \in ImageIds, uid \in Members : BeginSetPrimary(r, vid, iid, uid)

NextPrimary == \E r \in Reqs : (Serial(r) /\ PrimaryBegin(r)) \/ ImageStep(r) \/ Close(r)

SpecPrimary == Init /\ [][NextPrimary]_vars

\* the image handlers and venue deletion, one request at a time
Next ==
  \E r \in Reqs :
    \/ Serial(r) /\ ImageBegin(r)
    \/ Serial(r) /\ \E vid \in VenueIds, uid \in Users : BeginDelete(r, vid, uid)
    \/ ImageStep(r)
    \/ DeleteStep(r)
    \/ Close(r)

Spec == InitLegacy /\ [][Next]_vars

\* venue deletion and the handlers that give a venue images and reports, one
\* request at a time
NextDelete ==
  \E r \in Reqs :
    \/ Serial(r) /\ \E vid \in VenueIds, uid \in Users : BeginDelete(r, vid, uid)
    \/ Serial(r) /\ \E vid \in VenueIds, uid \in RaceUsers, file \in RacePayloads :
                      BeginAttach(r, vid, uid, file)
    \/ Serial(r) /\ \E vid \in VenueIds, uid \in RaceUsers, body \in RaceBodies :
                      BeginFile(r, vid, uid, body)
    \/ AttachVenue(r) \/ AttachCount(r) \/ AttachInsert(r)
    \/ FileStep(r)
    \/ DeleteStep(r)
    \/ Close(r)

SpecDelete == InitLegacy /\ [][NextDelete]_vars

\* the database right after init-db: its three seeded venues, which have no owner
InitSeeded ==
  /\ sports_venues = {SanSiro, Centro, Piscina}
  /\ football_fields = NoTable
  /\ field_images = {}
  /\ venue_reports = {}
  /\ files = {}
  /\ nextImageId = 1
  /\ nextReportId = 1
  /\ nextFile = 1
  /\ nextVenueId = 4
  /\ req = [r \in Reqs |-> IdleReq]

\* a body the validators of POST / accept and the columns take
ValidInput ==
  [NoInput EXCEPT !.name = <<"N">>, !.latitude = <<"4", "5", ".", "5">>,
                  !.longitude = <<"-", "9">>, !.city = Milano, !.province = MI,
                  !.region = Lombardia, !.sport_type = swimming]

\* the bodies a Create may carry: ValidInput, and ValidInput with one field
\* missing, empty, blank, not a number, too large for its column, or just other
Inputs ==
  {ValidInput}
  \cup {[ValidInput EXCEPT !.name = t] : t \in {Missing, <<>>, <<" ">>, <<"<", "b">>}}
  \cup {[ValidInput EXCEPT !.latitude = t] : t \in {Missing, <<"a">>, <<"-">>, <<"1", "2", "3">>}}
  \cup {[ValidInput EXCEPT !.longitude = t] : t \in {<<"1", "x">>, <<"0", "1", "2", "3">>}}
  \cup {[ValidInput EXCEPT !.city = t] : t \in {Missing, Roma}}
  \cup {[ValidInput EXCEPT !.province = t] :
           t \in {<<>>, <<"M", "o", "n", "z", "a", "-", "B", "r", "i", "a", "n">>}}
  \cup {[ValidInput EXCEPT !.region = t] : t \in {Missing}}
  \cup {[ValidInput EXCEPT !.sport_type = t] : t \in {Missing, football}}

\* the filters a List may carry
Queries ==
  {NoQuery,
   [NoQuery EXCEPT !.city = Milano, !.sport_type = swimming],
   [NoQuery EXCEPT !.city = <<"m", "i">>],
   [NoQuery EXCEPT !.city = <<"R", "O">>, !.province = <<"r">>],
   [NoQuery EXCEPT !.city = <<>>],
   [NoQuery EXCEPT !.city = <<"_">>],
   [NoQuery EXCEPT !.region = <<"l", "a">>],
   [NoQuery EXCEPT !.sport_type = football],
   [NoQuery EXCEPT !.sport_type = <<"F", "o", "o", "t", "b", "a", "l", "l">>],
   [NoQuery EXCEPT !.surface_type = erba, !.venue_type = olimpionica],
   [NoQuery EXCEPT !.venue_type = undici]}

\* Create and List, one request at a time
NextVenues ==
  \E r \in Reqs :
    \/ Serial(r) /\ \E uid \in Users, input \in Inputs : BeginCreate(r, uid, input)
    \/ Serial(r) /\ \E query \in Queries : BeginList(r, query)
    \/ CreateInsert(r)
    \/ ListSelect(r)
    \/ Close(r)

SpecVenues == InitSeeded /\ [][NextVenues]_vars

\* the report handler and the two report listings, one request at a time
ListStep(r) ==
  \/ ListReportsUser(r) \/ ListReportsVenue(r) \/ ListReportsSelect(r) \/ ListAllSelect(r)

NextVisibility ==
  \E r \in Reqs :
    \/ Serial(r) /\ \E vid \in VenueIds, uid \in Users, body \in RaceBodies :
                      BeginFile(r, vid, uid, body)
    \/ Serial(r) /\ \E vid \in VenueIds, uid \in Users : BeginListReports(r, vid, uid)
    \/ Serial(r) /\ \E uid \in Users : BeginListAll(r, uid)
    \/ FileStep(r)
    \/ ListStep(r)
    \/ Close(r)

SpecVisibility == Init /\ [][NextVisibility]_vars

\* the bodies an Update may carry: one with an empty sport_type, one without
\* sport_type (the column is NOT NULL), one with an empty name
UpdateInputs ==
  {[ValidInput EXCEPT !.sport_type = <<>>],
   [ValidInput EXCEPT !.sport_type = Missing],
   [ValidInput EXCEPT !.name = <<>>]}

\* every operation on an existing venue, one request at a time: Update by any
\* caller, Create, and the image and report handlers on venue 1
NextOwner ==
  \E r \in Reqs :
    \/ Serial(r) /\ \E vid \in VenueIds, uid \in Users, input \in UpdateInputs :
                      BeginUpdate(r, vid, uid, input)
    \/ Serial(r) /\ \E uid \in RaceUsers : BeginCreate(r, uid, ValidInput)
    \/ Serial(r) /\ RaceBegin(r)
    \/ Serial(r) /\ \E vid \in RaceVenueIds, uid \in RaceUsers, body \in RaceBodies :
                      BeginFile(r, vid, uid, body)
    \/ UpdateSelect(r) \/ UpdateWrite(r)
    \/ CreateInsert(r)
    \/ ImageStep(r)
    \/ FileStep(r)
    \/ Close(r)

SpecOwner == Init /\ [][NextOwner]_vars

\* the opening_hours and prices a body may carry: absent, empty, blank, a text
\* with white space around it, a value that is no string
HoursTexts == {Missing, <<>>, <<" ">>, <<"\t", " ">>, <<" ", "9", " ">>, NotAString}

HoursInputs ==
  {[ValidInput EXCEPT !.opening_hours = t] : t \in HoursTexts}
  \cup {[ValidInput EXCEPT !.prices = t] : t \in HoursTexts}
  \cup {[ValidInput EXCEPT !.opening_hours = <<"9">>, !.prices = <<"\t">>]}

\* Create and Update with bodies that differ in opening_hours and prices, one
\* request at a time
NextHours ==
  \E r \in Reqs :
    \/ Serial(r) /\ \E uid \in RaceUsers, input \in HoursInputs : BeginCreate(r, uid, input)
    \/ Serial(r) /\ \E vid \in VenueIds, uid \in RaceUsers, input \in HoursInputs :
                      BeginUpdate(r, vid, uid, input)
    \/ CreateInsert(r)
    \/ UpdateSelect(r) \/ UpdateWrite(r)
    \/ Close(r)

SpecHours == Init /\ [][NextHours]_vars

\* the requests of authenticated users that add venues, images and reports,
\* and POST /delete-all-fields from a caller with no identity, one at a time
NextOpen ==
  \E r \in Reqs :
    \/ Serial(r) /\ \E uid \in RaceUsers : BeginCreate(r, uid, ValidInput)
    \/ Serial(r) /\ \E vid \in VenueIds, uid \in RaceUsers, file \in RacePayloads :
                      BeginAttach(r, vid, uid, file)
    \/ Serial(r) /\ \E vid \in VenueIds, uid \in RaceUsers, body \in RaceBodies :
                      BeginFile(r, vid, uid, body)
    \/ Serial(r) /\ BeginDeleteAll(r)
    \/ CreateInsert(r)
    \/ AttachVenue(r) \/ AttachCount(r) \/ AttachInsert(r)
    \/ FileStep(r)
    \/ DeleteAllRows(r)
    \/ Close(r)

SpecOpen == Init /\ [][NextOpen]_vars

\* ------------------------------------------------------------------ claims
Done(r, o) == req[r].pc = "done" /\ req[r].op = o

Answer(r) == <<req[r].status, req[r].message>>

\* every request has been answered
Quiescent == \A r \in Reqs : req[r].pc \in {"idle", "done"}

\* the tables a request found, by name
PreVenues(r) == req[r].pre.db[1]
PreImages(r) == req[r].pre.db[3]
PreReports(r) == req[r].pre.db[4]
PreFiles(r) == req[r].pre.db[5]

\* C1: after any sequence of completed, non-overlapping Attach, Remove,
\* SetPrimary and venue Delete requests, every venue with at least one image has
\* exactly one primary image, and every venue with no image has none.
C1_PrimaryInvariant ==
  Quiescent => \A vid \in VenueIds : PrimaryOK(field_images, vid)

\* C2: two Attach requests that both arrived while their venue had no image and
\* ran concurrently leave, once both are answered, exactly one primary image.
C2_ConcurrentAttach ==
  \A r1, r2 \in Reqs :
    (/\ r1 # r2
     /\ Done(r1, "Attach") /\ Done(r2, "Attach")
     /\ req[r1].status = 200 /\ req[r2].status = 200
     /\ req[r1].id = req[r2].id
     /\ req[r1].pre.empty /\ req[r2].pre.empty)
    => Cardinality(Primaries(field_images, req[r1].id)) = 1

\* C3: two SetPrimary requests on one venue with different target images that ran
\* concurrently leave, once both are answered, exactly one primary image.
C3_ConcurrentSetPrimary ==
  \A r1, r2 \in Reqs :
    (/\ r1 # r2
     /\ Done(r1, "SetPrimary") /\ Done(r2, "SetPrimary")
     /\ req[r1].status = 200 /\ req[r2].status = 200
     /\ req[r1].id = req[r2].id
     /\ req[r1].imageId # req[r2].imageId)
    => Cardinality(Primaries(field_images, req[r1].id)) = 1

\* C4: two Remove requests for images of one venue (each naming that venue, which
\* had exactly one primary when they arrived) that ran concurrently, at least one
\* of them removing the primary image, leave exactly one primary image if an
\* image remains and none otherwise.
C4_ConcurrentRemove ==
  \A r1, r2 \in Reqs :
    (/\ r1 # r2
     /\ Done(r1, "Remove") /\ Done(r2, "Remove")
     /\ req[r1].status = 200 /\ req[r2].status = 200
     /\ req[r1].image.field_id = req[r1].id
     /\ req[r2].image.field_id = req[r2].id
     /\ req[r1].id = req[r2].id
     /\ req[r1].pre.sound /\ req[r2].pre.sound
     /\ (req[r1].image.is_primary \/ req[r2].image.is_primary))
    => PrimaryOK(field_images, req[r1].id)

\* C5 (as claimed): a File request whose caller had already reported the venue is
\* answered with the conflict, whatever report_type and description it carries.
C5_AlwaysConflict ==
  \A r \in Reqs :
    (Done(r, "File") /\ req[r].pre.reported) => Answer(r) = AlreadyReported

\* C5 (amended): no step of a File request whose caller had already reported the
\* venue changes venue_reports, and the request is answered with the conflict
\* when its body passes the validators and with the validation errors when not.
C5_ConflictOrInvalid ==
  [][\A r \in Reqs :
       (req'[r] # req[r] /\ req'[r].op = "File" /\ req'[r].pre.reported)
       => /\ venue_reports' = venue_reports
          /\ req'[r].pc = "done" =>
               <<req'[r].status, req'[r].message>> =
                 IF validationResult(req'[r].body) THEN AlreadyReported ELSE Invalid]_vars

\* a second report of the same venue by the same user, of another type, refused
C5_Witness ==
  \E r \in Reqs :
    /\ Done(r, "File") /\ req[r].pre.reported
    /\ Answer(r) = AlreadyReported
    /\ \E p \in ReportsOf(venue_reports, req[r].id, req[r].userId) :
         p.report_type # req[r].body.report_type

\* C6: in every reachable state, concurrent File requests included, at most one
\* report exists per (venue_id, reported_by_user_id).
C6_OneReportPerPair ==
  \A vid \in VenueIds, uid \in Users :
    Cardinality(ReportsOf(venue_reports, vid, uid)) <= 1

\* C7: SetPrimary is idempotent: from every reachable state and for every
\* (venue id, image id), running the handler twice leaves the images that running
\* it once leaves; the images a request just left are the ones the handler
\* computes from the images it found, and a second run with the same arguments
\* leaves them as they are.
C7_SetPrimaryIdempotent ==
  /\ \A vid \in VenueIds, iid \in ImageIds :
       SetPrimaryResult(SetPrimaryResult(field_images, vid, iid), vid, iid)
         = SetPrimaryResult(field_images, vid, iid)
  /\ \A r \in Reqs :
       Done(r, "SetPrimary")
       => /\ field_images = SetPrimaryResult(PreImages(r), req[r].id, req[r].imageId)
          /\ SetPrimaryResult(field_images, req[r].id, req[r].imageId) = field_images

\* a SetPrimary that moved the flag from another image of the venue to its target
C7_Witness ==
  \E r \in Reqs :
    /\ Done(r, "SetPrimary") /\ req[r].status = 200
    /\ \E i \in PreImages(r) : i.id = req[r].imageId /\ ~i.is_primary
    /\ \E i \in PreImages(r) : i.id # req[r].imageId /\ i.field_id = req[r].id /\ i.is_primary
    /\ field_images # PreImages(r)

\* C8: removing the primary image of a venue (which had exactly one) leaves as
\* its only primary the remaining image with the earliest uploaded_at, and none
\* when no image remains; removing a non-primary image leaves the primary as it was.
C8_RemovePromotesOldest ==
  \A r \in Reqs :
    (Done(r, "Remove") /\ req[r].status = 200 /\ req[r].pre.sound)
    => LET home == req[r].image.field_id
       IN IF req[r].image.is_primary
            THEN Primaries(field_images, home) = OldestImage(field_images, home)
            ELSE Primaries(field_images, home) = Primaries(PreImages(r), home)

\* C9: a Delete by a caller who is not an admin, of a venue that exists and is
\* not theirs, is answered with the error class (the HTTP status) of a Delete
\* of an id that does not exist.
C9_ExistenceHidden ==
  \A r \in Reqs :
    (/\ Done(r, "Delete")
     /\ ~is_admin(req[r].userId)
     /\ \E v \in PreVenues(r) : v.id = req[r].id /\ v.added_by_user_id # req[r].userId)
    => req[r].status = VenueNotFound[1]

\* C10: a Delete of an existing venue succeeds when the caller is an admin or
\* the venue's owner; otherwise it is refused (404, not found or access denied)
\* and leaves the venues, the images, the files and the reports as they were.
C10_DeleteAuthorization ==
  \A r \in Reqs :
    Done(r, "Delete") =>
      \A v \in PreVenues(r) :
        v.id = req[r].id =>
          IF is_admin(req[r].userId) \/ v.added_by_user_id = req[r].userId
            THEN req[r].status = 200
            ELSE /\ Answer(r) = AccessDenied
                 /\ sports_venues = PreVenues(r)
                 /\ field_images = PreImages(r)
                 /\ venue_reports = PreReports(r)
                 /\ files = PreFiles(r)

\* C11: after a Delete answered 200 to the venue's owner or to an admin, the
\* venue is in no row of sports_venues and no image and no report names it; and
\* in every reachable state every image and every report names an existing venue.
C11_DeleteCascades ==
  /\ \A r \in Reqs :
       (/\ Done(r, "Delete") /\ req[r].status = 200
        /\ \/ is_admin(req[r].userId)
           \/ \E v \in PreVenues(r) : v.id = req[r].id /\ v.added_by_user_id = req[r].userId)
       => /\ ~VenueExists(req[r].id)
          /\ ImagesOf(field_images, req[r].id) = {}
          /\ \A p \in venue_reports : p.venue_id # req[r].id
  /\ \A i \in field_images : VenueExists(i.field_id)
  /\ \A p \in venue_reports : VenueExists(p.venue_id)

\* the owner, who is no admin, deleted a venue that had an image and a report
C11_Witness ==
  \E r \in Reqs :
    /\ Done(r, "Delete") /\ req[r].status = 200 /\ ~is_admin(req[r].userId)
    /\ ImagesOf(PreImages(r), req[r].id) # {}
    /\ \E p \in PreReports(r) : p.venue_id = req[r].id
    /\ ~VenueExists(req[r].id)

\* C12: GET /:id/reports of an existing venue answers the venue's reports to the
\* venue's owner and to an admin, and 403 with no report to every other caller
\* (so to every caller but an admin when the venue has no owner); GET
\* /reports/all answers all reports to an admin and 403 with no report to
\* every other caller.
C12_ReportVisibility ==
  \A r \in Reqs :
    /\ Done(r, "ListForVenue")
       => \A v \in PreVenues(r) :
            v.id = req[r].id
            => IF is_admin(req[r].userId) \/ v.added_by_user_id = req[r].userId
                 THEN /\ req[r].status = 200
                      /\ {req[r].rows[i] : i \in DOMAIN req[r].rows}
                           = {p.id : p \in {q \in venue_reports : q.venue_id = req[r].id}}
                 ELSE Answer(r) = Forbidden /\ req[r].rows = <<>>
    /\ Done(r, "ListAll")
       => IF is_admin(req[r].userId)
            THEN /\ req[r].status = 200
                 /\ {req[r].rows[i] : i \in DOMAIN req[r].rows} = {p.id : p \in venue_reports}
            ELSE Answer(r) = Forbidden /\ req[r].rows = <<>>

\* a caller who is no admin was refused the reports of a venue that has reports
\* and no owner
C12_Witness ==
  \E r \in Reqs :
    /\ Done(r, "ListForVenue") /\ Answer(r) = Forbidden
    /\ \E v \in sports_venues : v.id = req[r].id /\ v.added_by_user_id = NULL
    /\ \E p \in venue_reports : p.venue_id = req[r].id

\* t is part of s, letter case aside
Contains(s, t) ==
  \E i \in 0..(Len(s) - Len(t)) :
    SubSeq(LowerText(s), i + 1, i + Len(t)) = LowerText(t)

\* the venue satisfies every filter the query carries
Satisfies(v, q) ==
  /\ q.city # Missing => (v.city # Missing /\ Contains(v.city, q.city))
  /\ q.province # Missing => (v.province # Missing /\ Contains(v.province, q.province))
  /\ q.region # Missing => (v.region # Missing /\ Contains(v.region, q.region))
  /\ q.surface_type # Missing => v.surface_type = q.surface_type
  /\ q.venue_type # Missing => v.venue_type = q.venue_type
  /\ q.sport_type # Missing => v.sport_type = q.sport_type

\* C13: GET / answers exactly the venues that satisfy every filter the query
\* carries (city, province, region as a part of the venue's text, letter case
\* aside; surface_type, venue_type, sport_type as the venue's text itself), each
\* once and none before a newer one.
C13_ListFilters ==
  \A r \in Reqs :
    Done(r, "List")
    => /\ req[r].status = 200
       /\ {req[r].rows[i] : i \in DOMAIN req[r].rows}
            = {v.id : v \in {w \in sports_venues : Satisfies(w, req[r].query)}}
       /\ \A i, j \in DOMAIN req[r].rows :
            i < j => /\ req[r].rows[i] # req[r].rows[j]
                     /\ \A v, w \in sports_venues :
                          (v.id = req[r].rows[i] /\ w.id = req[r].rows[j])
                          => v.created_at >= w.created_at

\* the fields POST / requires are there and well formed
WellFormed(input) ==
  /\ Raw(input.name) # <<>>
  /\ isFloat(input.latitude) /\ isFloat(input.longitude)
  /\ Raw(input.city) # <<>> /\ Raw(input.province) # <<>>
  /\ Raw(input.region) # <<>> /\ Raw(input.sport_type) # <<>>

\* C14: a Create whose name, city, province, region and sport_type are not
\* empty and whose latitude and longitude are numbers adds exactly one venue,
\* whose added_by_user_id is the caller; any other Create is answered 400 with
\* the validation errors and adds no venue.
C14_CreateValidates ==
  \A r \in Reqs :
    Done(r, "Create")
    => IF WellFormed(req[r].input)
         THEN /\ req[r].status = 201
              /\ \E v \in sports_venues :
                   /\ sports_venues = PreVenues(r) \cup {v}
                   /\ \A w \in PreVenues(r) : w.id # v.id
                   /\ v.added_by_user_id = req[r].userId
         ELSE Answer(r) = Invalid /\ sports_venues = PreVenues(r)

\* C15: ownerUserId is immutable: no step of any operation on an existing
\* venue (Update by any caller, Attach, Remove, SetPrimary, File) changes the
\* added_by_user_id the venue was created with
C15_OwnerImmutable ==
  [][\A v \in sports_venues : \A w \in sports_venues' :
       w.id = v.id => w.added_by_user_id = v.added_by_user_id]_vars

\* an Update by a caller who is not the owner has rewritten the venue's name
C15_Witness ==
  \E r \in Reqs :
    /\ Done(r, "Update")
    /\ req[r].status = 200
    /\ \E v \in sports_venues : \E p \in PreVenues(r) :
         /\ v.id = req[r].id
         /\ p.id = v.id
         /\ v.added_by_user_id # req[r].userId
         /\ v.added_by_user_id # NULL
         /\ v.name # p.name

\* the content types that agree with a declared extension
TypesOf(ext) ==
  CASE ext \in {"jpg", "jpeg"} -> {"image/jpeg", "image/jpg"}
    [] ext = "png" -> {"image/png"}
    [] ext = "gif" -> {"image/gif"}
    [] OTHER -> {}

\* what the claim lets Attach accept: extension and content type both
\* allow-listed and agreeing with each other, size at most 5 MiB
Agreeing(file) ==
  /\ file # NoFile
  /\ file.ext \in {"jpg", "jpeg", "png", "gif"}
  /\ file.mimetype \in TypesOf(file.ext)
  /\ file.size <= fileSize

\* C16: Attach accepts a payload only if its declared extension and declared
\* content type are both allow-listed, agree with each other, and its size is
\* at most 5 MiB; any other payload is answered 400 at once, so that nothing is
\* stored and no image row is recorded
C16_AttachAccepts ==
  [][\A r \in Reqs, vid \in VenueIds, uid \in Users, file \in Payloads :
       (BeginAttach(r, vid, uid, file) /\ ~Agreeing(file)) =>
         /\ req'[r].pc = "done"
         /\ req'[r].status = 400
         /\ files' = files]_vars

C18_SetPrimaryNotFound ==
  \A r \in Reqs :
    Done(r, "SetPrimary") =>
      IF \E i \in PreImages(r) : i.id = req[r].imageId /\ i.field_id = req[r].id
        THEN /\ req[r].status = 200
             /\ {i.id : i \in Primaries(field_images, req[r].id)} = {req[r].imageId}
        ELSE /\ Answer(r) = <<404, "Image not found">>
             /\ field_images = PreImages(r)

\* a SetPrimary has been refused for an image that exists, but at another
\* venue than the one of the URL, which has a primary image of its own
C18_Witness ==
  \E r \in Reqs :
    /\ Done(r, "SetPrimary")
    /\ req[r].status = 404
    /\ \E i \in field_images : i.id = req[r].imageId /\ i.field_id # req[r].id
    /\ Primaries(field_images, req[r].id) # {}

\* C19: a failure of the Notifier is isolated: a File whose notification was
\* rejected is still answered 201 with the success message, and its report is
\* in venue_reports with status pending
C19_NotifierIsolated ==
  \A r \in Reqs :
    (Done(r, "File") /\ req[r].emailError) =>
      /\ Answer(r) = <<201, "Segnalazione inviata con successo">>
      /\ \E rep \in venue_reports :
           /\ rep.venue_id = req[r].id
           /\ rep.reported_by_user_id = req[r].userId
           /\ rep.status = "pending"

\* a File has been answered after its notification was rejected
C19_Witness ==
  \E r \in Reqs :
    /\ Done(r, "File")
    /\ req[r].emailError
    /\ req[r].status = 201
    /\ ReportsOf(venue_reports, req[r].id, req[r].userId) # {}

\* C20: the notifier call is fire-and-forget: a File whose report has been
\* persisted eventually answers its caller, even if the Notifier never completes
C20_FireAndForget ==
  \A r \in Reqs : (req[r].pc = "file_email") ~> (req[r].pc = "done")

\* C21: a failure to delete a stored file during a cascading Delete does not
\* abort the cascade: the Delete is still answered 200, and the venue, its
\* image rows and its reports are removed
C21_BlobFailureTolerated ==
  \A r \in Reqs :
    (Done(r, "Delete") /\ req[r].unlinkError) =>
      /\ req[r].status = 200
      /\ ~VenueExists(req[r].id)
      /\ ImagesOf(field_images, req[r].id) = {}
      /\ \A p \in venue_reports : p.venue_id # req[r].id

\* a text that is empty or has white space only
Blank(t) == \A k \in 1..Len(t) : t[k] \in {" ", "\t"}

\* C22: in every reachable state no venue has an opening_hours or a prices
\* that is an empty or white-space-only text: Create and Update store such
\* input as NULL
C22_HoursNormalized ==
  \A v \in sports_venues :
    /\ v.opening_hours # Missing => ~Blank(v.opening_hours)
    /\ v.prices # Missing => ~Blank(v.prices)

\* an Update whose opening_hours was white space only has replaced a venue's
\* opening_hours by NULL, and a created venue has NULL in both columns
C22_Witness ==
  \E r \in Reqs :
    /\ Done(r, "Update") /\ req[r].status = 200
    /\ Blank(req[r].input.opening_hours)
    /\ req[r].input.opening_hours # <<>>
    /\ \E v \in sports_venues : v.id = req[r].id /\ v.opening_hours = Missing
    /\ \E p \in PreVenues(r) : p.id = req[r].id /\ p.opening_hours # Missing
    /\ \E w \in sports_venues :
         w.id > 2 /\ w.opening_hours = Missing /\ w.prices = Missing

\* what the claim requires of a report: a type of the closed enumeration and
\* a description that is absent or 10 to 500 characters long
WellTyped(report_type, description) ==
  /\ report_type \in {"non_esiste", "info_errate", "altro"}
  /\ description = Absent \/ (description >= 10 /\ description <= 500)

\* C23: a File whose report_type is outside the enumeration, or whose
\* description is present with a length outside 10..500, is answered 400 at
\* once; a File on a venue that does not exist is answered 404 by its first
\* query; neither gets to the insert or to the notifier, no report of an
\* ill-formed body or of a missing venue is ever in venue_reports, and every
\* report there has status pending
C23_FileValidates ==
  /\ \A r \in Reqs :
       req[r].op = "File" =>
         /\ ~WellTyped(req[r].body.report_type, req[r].body.description) =>
              req[r].pc = "done" /\ Answer(r) = Invalid
         /\ (WellTyped(req[r].body.report_type, req[r].body.description)
               /\ ~VenueExists(req[r].id)) =>
              /\ req[r].pc \in {"file_venue", "done"}
              /\ req[r].pc = "done" => Answer(r) = <<404, "Venue not found">>
  /\ \A p \in venue_reports :
       /\ WellTyped(p.report_type, p.description)
       /\ VenueExists(p.venue_id)
       /\ p.status = "pending"

\* one File has been refused for a description that is too long and another
\* for a venue that does not exist, while a report is on record
C23_Witness ==
  \E r \in Reqs, q \in Reqs :
    /\ Done(r, "File") /\ Answer(r) = Invalid
    /\ req[r].body.report_type \in report_types
    /\ req[r].body.description > DescMax
    /\ Done(q, "File") /\ req[q].status = 404 /\ ~VenueExists(req[q].id)
    /\ venue_reports # {}

\* C24: a Remove of a venue's primary image and an Attach to the same venue
\* (which had exactly one primary when they arrived) that ran concurrently
\* leave, once both are answered, exactly one primary image if the venue has
\* an image
C24_RemoveDuringAttach ==
  \A r1, r2 \in Reqs :
    (/\ Done(r1, "Remove") /\ Done(r2, "Attach")
     /\ req[r1].status = 200 /\ req[r2].status = 200
     /\ req[r1].image.field_id = req[r1].id
     /\ req[r1].image.is_primary
     /\ req[r1].id = req[r2].id
     /\ req[r1].pre.sound /\ req[r2].pre.sound)
    => PrimaryOK(field_images, req[r1].id)

\* C25: in every reachable state every venue has a name that is not empty, a
\* latitude and a longitude that are numbers, and a sport_type that is not
\* empty; an Update that omits sport_type or carries it empty leaves no venue
\* without one
C25_VenueWellFormed ==
  \A v \in sports_venues :
    /\ v.name # Missing /\ v.name # <<>>
    /\ isFloat(v.latitude) /\ isFloat(v.longitude)
    /\ v.sport_type # Missing /\ v.sport_type # <<>>

\* C26: no step of a Remove or a SetPrimary, whatever venue id its URL
\* carries, changes the is_primary flag of an image of another venue than the
\* venue of the image that imageId names
C26_OtherVenuesUntouched ==
  [][\A r \in Reqs :
       (req'[r] # req[r] /\ req'[r].op \in {"Remove", "SetPrimary"}) =>
         \A t \in PreImages(r)' :
           t.id = req'[r].imageId =>
             \A i \in field_images : \A j \in field_images' :
               (j.id = i.id /\ i.field_id # t.field_id) => j.is_primary = i.is_primary]_vars

\* C27: Delete is all-or-nothing: after a Delete that was answered with an
\* error, the venues, the image rows and the reports are the ones the request
\* found
C27_DeleteAtomic ==
  \A r \in Reqs :
    (Done(r, "Delete") /\ req[r].status # 200) =>
      /\ sports_venues = PreVenues(r)
      /\ field_images = PreImages(r)
      /\ venue_reports = PreReports(r)

\* C28: an Attach that was answered 404 because its venue does not exist
\* leaves the stored files as it found them; and whenever no request is in
\* flight every stored file is the image_url of some image row
C28_NoOrphanBlob ==
  /\ \A r \in Reqs :
       (Done(r, "Attach") /\ req[r].status = 404) => files = PreFiles(r)
  /\ Quiescent => \A f \in files : \E i \in field_images : i.image_url = f

\* C29: after a Delete answered 200 to the venue's owner, who is no admin,
\* the files of the images the venue had are no longer stored
C29_OwnerDeleteRemovesBlobs ==
  \A r \in Reqs :
    (/\ Done(r, "Delete") /\ req[r].status = 200 /\ ~is_admin(req[r].userId)
     /\ \E v \in PreVenues(r) : v.id = req[r].id /\ v.added_by_user_id = req[r].userId) =>
      \A i \in ImagesOf(PreImages(r), req[r].id) : i.image_url \notin files

\* C30: no step of a request that carries no verified user changes the
\* venues, the images or the reports
C30_AuthenticatedWrites ==
  [][\A r \in Reqs :
       (req'[r] # req[r] /\ req'[r].op # "idle" /\ req'[r].userId = NULL) =>
         /\ sports_venues' = sports_venues
         /\ field_images' = field_images
         /\ venue_reports' = venue_reports]_vars

====
